---- MODULE Spec2Model ----
(***************************************************************************)
(* A model of static/flipbook-viewer.js: the annotation viewer built on    *)
(* turn.js (the module-level state, the document-ready closure and the     *)
(* global helpers) and the Flipbook class of the same file, together with  *)
(* the remote API the viewer talks to.                                     *)
(***************************************************************************)
EXTENDS Integers, Sequences, FiniteSets, Bags, TLC

VARIABLES
    currentMode,            \* line 1: NULL (browse), "note" or "highlight"
    currentHighlightColor,  \* line 2
    allNotes,               \* line 3: the cached notes, an array
    allHighlights,          \* line 4: the cached highlights, an array
    dom,                    \* the .note-marker / .highlight-marker elements in the document
    previewCount,           \* the number of .highlight-preview elements in the document
    highlightStart,         \* line 226
    highlightPreview,       \* line 227: NULL or a reference to a preview element
    isDown,                 \* line 197
    startX,                 \* line 196
    view,                   \* turn.js: the visible pages, $flipbook.turn('view')
    layer,                  \* the rendered size of an .annotations-layer
    net,                    \* create / delete requests and their responses in flight
    getNotes,               \* the load-time fetch of the notes
    getHighlights,          \* the load-time fetch of the highlights
    preload,                \* the Promise.all of preloadAnnotations
    srvNotes,               \* the remote store: notes
    srvHighlights,          \* the remote store: highlights
    nextId,                 \* the remote store: next id to assign
    created,                \* the records whose create succeeded in the session
    deleted,                \* the records whose delete succeeded in the session
    currentSpread,          \* Flipbook: line 480
    isAnimating,            \* Flipbook: line 481
    flipped,                \* Flipbook: the wrappers carrying class "flipped"
    fbStartX,               \* Flipbook.setupEvents: line 529
    totalPages              \* Flipbook: line 479

viewerVars == <<currentMode, currentHighlightColor, allNotes, allHighlights, dom,
                previewCount, highlightStart, highlightPreview, isDown, startX,
                view, layer>>
remoteVars == <<net, getNotes, getHighlights, preload, srvNotes, srvHighlights,
                nextId, created, deleted>>
flipVars == <<currentSpread, isAnimating, flipped, fbStartX, totalPages>>
vars == <<viewerVars, remoteVars, flipVars>>

NULL == "null"
\* highlightStart is <<>> for null and <<start>> for an object
NoStart == <<>>
\* the element of a request that refers to none
NoEl == <<0, 0>>

(* ------------------------------ bounds -------------------------------- *)
\* the .page elements carry data-page 0 .. NumPages-1
NumPages == 2
\* the remote store assigns the ids 1 .. MaxId
MaxId == 2
\* requests and unhandled responses in flight at a time
MaxInFlight == 2
\* .highlight-preview elements the document may hold
MaxPreviews == 2
\* pages a Flipbook instance may be given
MaxTotalPages == 4

(* ------------------------- program constants -------------------------- *)
\* line 340: the minimum drag, in pixels
MinDrag == 10
\* lines 221-222: the drag threshold of the viewer's swipe
DragThreshold == 100
\* lines 535-536: the swipe threshold of Flipbook
SwipeThreshold == 50
\* lines 135: preloadPages looks this many pages ahead
PreloadAhead == 6

Pages == 0 .. (NumPages - 1)
Modes == {"note", "highlight"}
Palette == {"yellow", "green", "pink", "blue"}

(* ----------------------------- arithmetic ----------------------------- *)
Abs(a) == IF a < 0 THEN -a ELSE a
Min(a, b) == IF a < b THEN a ELSE b

RECURSIVE GCD(_, _)
GCD(a, b) == IF b = 0 THEN a ELSE GCD(b, a % b)

\* the quotient n / d as a fraction in lowest terms (d > 0)
Frac(n, d) ==
    LET g == GCD(Abs(n), d)
    IN  IF g = 0 THEN [n |-> 0, d |-> 1] ELSE [n |-> n \div g, d |-> d \div g]

\* (a / b) * 100, lines 238-239 and 347-350
Pct(a, b) == Frac(a * 100, b)

(* ------------------------------ layout -------------------------------- *)
\* the size of a layer of the 1000 x 700 double-page book (lines 149-151), and of a
\* layer that spans the whole book
LayerSizes == {[w |-> 500, h |-> 700], [w |-> 1000, h |-> 700]}

\* $layer.offset(): turn.js shows odd pages on the right half of the book
LayerOffset(p) == [left |-> IF (p + 1) % 2 = 1 THEN layer.w ELSE 0, top |-> 0]

\* a pointer position over the layer of page p, r pixels from its corner
At(p, r) == [x |-> LayerOffset(p).left + r[1], y |-> LayerOffset(p).top + r[2]]

(* ----------------------------- turn.js -------------------------------- *)
\* the engine's pages are 1 .. NumPages; page v hosts the element data-page = v - 1
PDF_PAGE_COUNT == NumPages - 2

\* the view (display: 'double') that shows page pg
ViewOf(pg) ==
    IF pg % 2 = 0 THEN <<pg, IF pg + 1 <= NumPages THEN pg + 1 ELSE 0>>
    ELSE <<pg - 1, pg>>

Views == {ViewOf(pg) : pg \in 1 .. NumPages}

\* the page a turn command leads to, 0 when there is none
TurnTarget(dir) ==
    IF dir = "next"
    THEN LET last == IF view[2] # 0 THEN view[2] ELSE view[1]
         IN  IF last + 1 <= NumPages THEN last + 1 ELSE 0
    ELSE LET first == IF view[1] # 0 THEN view[1] ELSE view[2]
         IN  IF first - 1 >= 1 THEN first - 1 ELSE 0

Visible(p) == (p + 1) = view[1] \/ (p + 1) = view[2]

(* ----------------------------- rendering ------------------------------ *)
DeleteKinds == {"deleteNote", "deleteHighlight"}

\* elements a pending delete handler still refers to (the `el` of lines 431, 449)
HeldEls == {m.el : m \in {q \in BagToSet(net) : q.kind \in DeleteKinds}}

\* a new element for record id: an identity (id, n) that no element of the document
\* and no element a handler refers to has
NewEl(id, d) ==
    LET used == {m.el : m \in d} \cup HeldEls
    IN  CHOOSE e \in {<<id, n>> : n \in 1 .. (Cardinality(used) + 1)} :
            /\ e \notin used
            /\ \A n \in 1 .. (e[2] - 1) : <<id, n>> \in used

renderNote(note, p, d) ==
    d \cup {[el |-> NewEl(note.id, d), page |-> p, kind |-> "note", id |-> note.id,
             colorClass |-> "none"]}

ColorClass(hl) == IF hl.color = NULL THEN "yellow" ELSE hl.color

renderHighlightAlone(hl, p, d) ==
    {m \in d : m.page # p} \cup
    {[el |-> NewEl(hl.id, d), page |-> p, kind |-> "highlight", id |-> hl.id,
      colorClass |-> ColorClass(hl)]}

\* lines 76-88
renderHighlight(hl, p, d) ==
    d \cup {[el |-> NewEl(hl.id, d), page |-> p, kind |-> "highlight", id |-> hl.id,
             colorClass |-> ColorClass(hl)]}

\* Array.prototype.filter by page number (lines 50 and 53)
RECURSIVE OnPage(_, _)
OnPage(s, p) ==
    IF s = <<>> THEN <<>>
    ELSE IF Head(s).page_number = p THEN <<Head(s)>> \o OnPage(Tail(s), p)
         ELSE OnPage(Tail(s), p)

RECURSIVE RenderNotes(_, _, _)
RenderNotes(s, p, d) ==
    IF s = <<>> THEN d ELSE RenderNotes(Tail(s), p, renderNote(Head(s), p, d))

RECURSIVE RenderHighlights(_, _, _)
RenderHighlights(s, p, d) ==
    IF s = <<>> THEN d ELSE RenderHighlights(Tail(s), p, renderHighlight(Head(s), p, d))

KeepMarkers(p, d) == d
\* lines 47-48: the markers of the page element are removed
ClearMarkers(p, d) == {m \in d : m.page # p}

\* lines 45-56, for the page element data-page = p, from the cache (notes, hls)
loadAnnotations(notes, hls, p, d) ==
    RenderHighlights(OnPage(hls, p), p,
        RenderNotes(OnPage(notes, p), p, ClearMarkers(p, d)))

\* lines 91-130: the annotations part of load(view), view a sequence of engine pages
RECURSIVE load(_, _, _, _)
load(v, notes, hls, d) ==
    IF v = <<>> THEN d
    ELSE IF Head(v) <= 0 \/ (Head(v) - 1) \notin Pages
         THEN load(Tail(v), notes, hls, d)
         ELSE load(Tail(v), notes, hls, loadAnnotations(notes, hls, Head(v) - 1, d))

\* lines 132-144
RECURSIVE PagesAhead(_, _)
PagesAhead(currentPage, i) ==
    IF i > PreloadAhead THEN <<>>
    ELSE (IF currentPage + i <= PDF_PAGE_COUNT + 2 THEN <<currentPage + i>> ELSE <<>>)
         \o PagesAhead(currentPage, i + 1)

preloadPages(currentPage, notes, hls, d) ==
    load(PagesAhead(currentPage, 1), notes, hls, d)

\* $flipbook.turn(dir): the engine turns when there is a page to turn to, fires
\* `turning` (lines 157-161) and then `turned` (lines 162-174); the document after both
TurnDom(dir) ==
    LET pg == TurnTarget(dir)
    IN  IF pg = 0 THEN dom
        ELSE preloadPages(pg, allNotes, allHighlights,
                          load(ViewOf(pg), allNotes, allHighlights, dom))

TurnView(dir) == IF TurnTarget(dir) = 0 THEN view ELSE ViewOf(TurnTarget(dir))

(* ------------------------- requests in flight ------------------------- *)
CreateKinds == {"createNote", "createHighlight"}
Zero == [n |-> 0, d |-> 1]

\* a request as fetch() sends it; stage: "sent", then the outcome the handlers see:
\* "ok" ({success: true, id}), "fail" ({success: false}) or "reject" (the promise
\* rejects: no connection, or a body that is not JSON)
Request(kind, page, content, x, y, w, h, color, id, el) ==
    [kind |-> kind, stage |-> "sent", page |-> page,
     content |-> content, x |-> x, y |-> y, w |-> w, h |-> h, color |-> color,
     id |-> id, el |-> el]

CanSend == BagCardinality(net) < MaxInFlight

\* net is a bag: two requests in flight may be equal
InFlight == BagToSet(net)
Put(m) == net (+) SetToBag({m})
Take(m) == net (-) SetToBag({m})
Answer(m, a) == (net (-) SetToBag({m})) (+) SetToBag({a})

\* a load-time fetch: st is "idle", "sent", "ok" (resolved with parsed JSON) or "fail"
\* (rejected); array tells whether the JSON is an array, body is the array
Idle == [st |-> "idle", array |-> TRUE, body |-> <<>>]
Sent == [st |-> "sent", array |-> TRUE, body |-> <<>>]
Failed == [st |-> "fail", array |-> TRUE, body |-> <<>>]
NotArray == [st |-> "ok", array |-> FALSE, body |-> <<>>]

\* a set of records as the array the API returns, by id
RECURSIVE ById(_)
ById(S) ==
    IF S = {} THEN <<>>
    ELSE LET r == CHOOSE a \in S : \A b \in S : a.id <= b.id
         IN  <<r>> \o ById(S \ {r})

(* ------------------------ interaction mode ---------------------------- *)
\* lines 412-429: the value of currentMode after setMode(mode); the button classes,
\* the colour picker and the cursor follow the mode and are not modelled
setModeUnlessNull(mode) == IF mode = NULL THEN currentMode ELSE mode
setMode(mode) == mode

toggleModeSticky(mode) == setMode(mode)
\* lines 400-403: the value of currentMode after toggleMode(mode)
toggleMode(mode) == IF currentMode = mode THEN setMode(NULL) ELSE setMode(mode)

\* a mode button is activated
ToggleMode(mode) ==
    /\ currentMode' = toggleMode(mode)
    /\ UNCHANGED <<currentHighlightColor, allNotes, allHighlights, dom, previewCount,
                   highlightStart, highlightPreview, isDown, startX, view, layer>>
    /\ UNCHANGED <<remoteVars, flipVars>>

\* lines 405-410
SetHighlightColor(color) ==
    /\ currentHighlightColor' = color
    /\ UNCHANGED <<currentMode, allNotes, allHighlights, dom, previewCount,
                   highlightStart, highlightPreview, isDown, startX, view, layer>>
    /\ UNCHANGED <<remoteVars, flipVars>>

(* ---------------------------- navigation ------------------------------ *)
\* lines 182-188: the buttons and the arrow keys
Turn(dir) ==
    /\ TurnTarget(dir) # 0
    /\ view' = TurnView(dir)
    /\ dom' = TurnDom(dir)
    /\ UNCHANGED <<currentMode, currentHighlightColor, allNotes, allHighlights,
                   previewCount, highlightStart, highlightPreview, isDown, startX, layer>>
    /\ UNCHANGED <<remoteVars, flipVars>>

\* lines 220-222: the command the viewer's swipe handler issues for a drag from sx to ex
SwipeCommand(sx, ex) ==
    IF sx - ex > DragThreshold THEN "next"
    ELSE IF ex - sx > DragThreshold THEN "previous"
    ELSE "none"

(* --------------------------- pointer events --------------------------- *)
\* A touchstart / mousedown on target tgt of the layer of page p, at r, reaches the
\* viewer's handler and the highlighter's; the mode lets at most one of them act.
\* tgt: "layer" (the bare layer), "marker" (a marker), "delete" (a delete control)
NavStarts(tgt) == tgt = "layer" /\ currentMode = NULL
DragStarts(tgt) == currentMode = "highlight" /\ tgt # "delete"

\* the viewer's handler, lines 199-206
NavDown(tgt, p, r) ==
    /\ Visible(p)
    /\ tgt # "layer" => \E m \in dom : m.page = p
    /\ NavStarts(tgt)
    /\ isDown' = TRUE
    /\ startX' = At(p, r).x
    /\ UNCHANGED <<currentMode, currentHighlightColor, allNotes, allHighlights, dom,
                   previewCount, highlightStart, highlightPreview, view, layer>>
    /\ UNCHANGED <<remoteVars, flipVars>>

\* the highlighter's handler, lines 269-297
DragDown(tgt, p, r) ==
    LET e == At(p, r)
        off == LayerOffset(p)
    IN  /\ Visible(p)
        /\ tgt # "layer" => \E m \in dom : m.page = p
        /\ DragStarts(tgt)
        /\ previewCount < MaxPreviews
        /\ highlightStart' = <<[x |-> e.x - off.left, y |-> e.y - off.top,
                                pageNum |-> p]>>
        /\ highlightPreview' = "preview"
        /\ previewCount' = previewCount + 1
        /\ UNCHANGED <<currentMode, currentHighlightColor, allNotes, allHighlights,
                       dom, isDown, startX, view, layer>>
        /\ UNCHANGED <<remoteVars, flipVars>>

\* line 324
DragOpen == highlightStart # NoStart /\ highlightPreview # NULL

MeaningfulBothWays(sx, sy, ex, ey) == Abs(ex - sx) > MinDrag /\ Abs(ey - sy) > MinDrag
\* line 340, for a drag from (sx, sy) to (ex, ey) in layer pixels
Meaningful(sx, sy, ex, ey) == Abs(ex - sx) > MinDrag \/ Abs(ey - sy) > MinDrag

RectFromStart(sx, sy, ex, ey) ==
    [x |-> Pct(sx, layer.w), y |-> Pct(sy, layer.h),
     w |-> Pct(ex - sx, layer.w), h |-> Pct(ey - sy, layer.h)]

\* lines 341-350
Rect(sx, sy, ex, ey) ==
    [x |-> Pct(Min(sx, ex), layer.w), y |-> Pct(Min(sy, ey), layer.h),
     w |-> Pct(Abs(ex - sx), layer.w), h |-> Pct(Abs(ey - sy), layer.h)]

\* lines 352-360: the POST a drag from hs to the pointer position e sends
HighlightRequest(hs, e) ==
    LET off == LayerOffset(hs.pageNum)
        c == Rect(hs.x, hs.y, e.x - off.left, e.y - off.top)
    IN  Request("createHighlight", hs.pageNum, NULL, c.x, c.y, c.w, c.h,
                currentHighlightColor, 0, NoEl)

DragMeaningful(hs, e) ==
    LET off == LayerOffset(hs.pageNum)
    IN  Meaningful(hs.x, hs.y, e.x - off.left, e.y - off.top)

\* the page whose layer the open drag started on, else the first visible page
DragPage ==
    IF highlightStart # NoStart THEN highlightStart[1].pageNum
    ELSE CHOOSE p \in Pages : Visible(p)

\* One touchend / mouseup at e: the highlighter's handler on document (lines 323-381),
\* then the viewer's on window (lines 208-223).
PointerUp(e) ==
    /\ DragOpen \/ isDown
    /\ IF DragOpen
       THEN /\ IF DragMeaningful(highlightStart[1], e)
               THEN CanSend /\ net' = Put(HighlightRequest(highlightStart[1], e))
               ELSE net' = net
            /\ previewCount' = previewCount - 1
            /\ highlightStart' = NoStart
            /\ highlightPreview' = NULL
       ELSE UNCHANGED <<net, previewCount, highlightStart, highlightPreview>>
    /\ IF isDown
       THEN /\ isDown' = FALSE
            /\ IF SwipeCommand(startX, e.x) # "none"
               THEN /\ view' = TurnView(SwipeCommand(startX, e.x))
                    /\ dom' = TurnDom(SwipeCommand(startX, e.x))
               ELSE UNCHANGED <<view, dom>>
       ELSE UNCHANGED <<isDown, view, dom>>
    /\ UNCHANGED <<currentMode, currentHighlightColor, allNotes, allHighlights,
                   startX, layer>>
    /\ UNCHANGED <<getNotes, getHighlights, preload, srvNotes, srvHighlights, nextId,
                   created, deleted>>
    /\ UNCHANGED flipVars

\* lines 229-266: a click on the layer of page p at r; content is what prompt() returns
\* (NULL: cancelled or empty)
PlacesNoteInAnyMode == currentMode # NULL
\* lines 230 and 241: the handler goes on only in note mode
PlacesNote == (currentMode # NULL /\ currentMode # "highlight") /\ currentMode = "note"

ClickLayer(p, r, content) ==
    LET e == At(p, r)
        off == LayerOffset(p)
        x == Pct(e.x - off.left, layer.w)
        y == Pct(e.y - off.top, layer.h)
    IN  /\ Visible(p)
        /\ PlacesNote
        /\ IF content # NULL
           THEN /\ CanSend
                /\ net' = Put(Request("createNote", p, content, x, y, Zero, Zero,
                                        NULL, 0, NoEl))
           ELSE net' = net
        /\ currentMode' = setMode(NULL)
        /\ UNCHANGED <<currentHighlightColor, allNotes, allHighlights, dom, previewCount,
                       highlightStart, highlightPreview, isDown, startX, view, layer>>
        /\ UNCHANGED <<getNotes, getHighlights, preload, srvNotes, srvHighlights, nextId,
                       created, deleted>>
        /\ UNCHANGED flipVars

\* lines 431-433 and 449-451: a click on the delete control of marker m; confirmed is
\* what confirm() returns
ConfirmsAnyway(confirmed) == TRUE
\* lines 432 and 450: if (!confirm(...)) return
Confirms(confirmed) == confirmed

DeleteClick(m, confirmed) ==
    /\ m \in dom
    /\ Visible(m.page)
    /\ IF Confirms(confirmed)
       THEN /\ CanSend
            /\ net' = Put(Request(IF m.kind = "note" THEN "deleteNote"
                                   ELSE "deleteHighlight",
                                   m.page, NULL, Zero, Zero, Zero, Zero, NULL,
                                   m.id, m.el))
       ELSE net' = net
    /\ UNCHANGED viewerVars
    /\ UNCHANGED <<getNotes, getHighlights, preload, srvNotes, srvHighlights, nextId,
                   created, deleted>>
    /\ UNCHANGED flipVars

(* ------------------------- response handlers -------------------------- *)
Settled(m) == m.stage \in {"ok", "fail", "reject"}

CreateOkUnlessRejected(m) == m.stage # "reject"
\* lines 251 and 363: the answer parsed and d.success holds
CreateOk(m) == m.stage = "ok"

DeleteOkUnlessRejected(m) == m.stage # "reject"
\* lines 436 and 454
DeleteOk(m) == m.stage = "ok"

\* line 438 and line 456: Array.prototype.filter by id
RECURSIVE WithoutId(_, _)
WithoutId(s, id) ==
    IF s = <<>> THEN <<>>
    ELSE IF Head(s).id # id THEN <<Head(s)>> \o WithoutId(Tail(s), id)
         ELSE WithoutId(Tail(s), id)

\* lines 437 and 455: $(el).closest(marker).remove()
RemoveEl(el, d) == {q \in d : q.el # el}

\* lines 249-262
CreateNoteDone(m) ==
    /\ m \in InFlight /\ m.kind = "createNote" /\ Settled(m)
    /\ net' = Take(m)
    /\ IF CreateOk(m)
       THEN LET newNote == [id |-> m.id, page_number |-> m.page, content |-> m.content,
                            x |-> m.x, y |-> m.y]
            IN  /\ allNotes' = Append(allNotes, newNote)
                /\ dom' = renderNote(newNote, m.page, dom)
                /\ created' = created \cup {[kind |-> "note", id |-> m.id]}
       ELSE UNCHANGED <<allNotes, dom, created>>
    /\ UNCHANGED <<currentMode, currentHighlightColor, allHighlights, previewCount,
                   highlightStart, highlightPreview, isDown, startX, view, layer>>
    /\ UNCHANGED <<getNotes, getHighlights, preload, srvNotes, srvHighlights, nextId,
                   deleted>>
    /\ UNCHANGED flipVars

\* lines 361-374
CreateHighlightDone(m) ==
    /\ m \in InFlight /\ m.kind = "createHighlight" /\ Settled(m)
    /\ net' = Take(m)
    /\ IF CreateOk(m)
       THEN LET newHighlight ==
                    [id |-> m.id, page_number |-> m.page,
                     coordinates |-> [x |-> m.x, y |-> m.y, w |-> m.w, h |-> m.h],
                     color |-> currentHighlightColor]
            IN  /\ allHighlights' = Append(allHighlights, newHighlight)
                /\ dom' = renderHighlight(newHighlight, m.page, dom)
                /\ created' = created \cup {[kind |-> "highlight", id |-> m.id]}
       ELSE UNCHANGED <<allHighlights, dom, created>>
    /\ UNCHANGED <<currentMode, currentHighlightColor, allNotes, previewCount,
                   highlightStart, highlightPreview, isDown, startX, view, layer>>
    /\ UNCHANGED <<getNotes, getHighlights, preload, srvNotes, srvHighlights, nextId,
                   deleted>>
    /\ UNCHANGED flipVars

\* lines 434-446
DeleteNoteDone(m) ==
    /\ m \in InFlight /\ m.kind = "deleteNote" /\ Settled(m)
    /\ net' = Take(m)
    /\ IF DeleteOk(m)
       THEN /\ dom' = RemoveEl(m.el, dom)
            /\ allNotes' = WithoutId(allNotes, m.id)
            /\ deleted' = deleted \cup {[kind |-> "note", id |-> m.id]}
       ELSE UNCHANGED <<allNotes, dom, deleted>>
    /\ UNCHANGED <<currentMode, currentHighlightColor, allHighlights, previewCount,
                   highlightStart, highlightPreview, isDown, startX, view, layer>>
    /\ UNCHANGED <<getNotes, getHighlights, preload, srvNotes, srvHighlights, nextId,
                   created>>
    /\ UNCHANGED flipVars

\* lines 452-464
DeleteHighlightDone(m) ==
    /\ m \in InFlight /\ m.kind = "deleteHighlight" /\ Settled(m)
    /\ net' = Take(m)
    /\ IF DeleteOk(m)
       THEN /\ dom' = RemoveEl(m.el, dom)
            /\ allHighlights' = WithoutId(allHighlights, m.id)
            /\ deleted' = deleted \cup {[kind |-> "highlight", id |-> m.id]}
       ELSE UNCHANGED <<allHighlights, dom, deleted>>
    /\ UNCHANGED <<currentMode, currentHighlightColor, allNotes, previewCount,
                   highlightStart, highlightPreview, isDown, startX, view, layer>>
    /\ UNCHANGED <<getNotes, getHighlights, preload, srvNotes, srvHighlights, nextId,
                   created>>
    /\ UNCHANGED flipVars

(* --------------------------- the remote API --------------------------- *)
\* POST /api/book/{id}/notes and /highlights: the store keeps the record under a new
\* id and answers {success: true, id}
ServeCreate(m) ==
    /\ m \in InFlight /\ m.kind \in CreateKinds /\ m.stage = "sent"
    /\ nextId <= MaxId
    /\ nextId' = nextId + 1
    /\ net' = Answer(m, [m EXCEPT !.stage = "ok", !.id = nextId])
    /\ IF m.kind = "createNote"
       THEN /\ srvNotes' = srvNotes \cup
                    {[id |-> nextId, page_number |-> m.page, content |-> m.content,
                      x |-> m.x, y |-> m.y]}
            /\ UNCHANGED srvHighlights
       ELSE /\ srvHighlights' = srvHighlights \cup
                    {[id |-> nextId, page_number |-> m.page,
                      coordinates |-> [x |-> m.x, y |-> m.y, w |-> m.w, h |-> m.h],
                      color |-> m.color]}
            /\ UNCHANGED srvNotes
    /\ UNCHANGED <<viewerVars, flipVars>>
    /\ UNCHANGED <<getNotes, getHighlights, preload, created, deleted>>

\* DELETE /api/note/{id} and /api/highlight/{id}: {success: true} when the record was
\* there, {success: false} otherwise
ServeDelete(m) ==
    /\ m \in InFlight /\ m.kind \in DeleteKinds /\ m.stage = "sent"
    /\ LET store == IF m.kind = "deleteNote" THEN srvNotes ELSE srvHighlights
           there == \E r \in store : r.id = m.id
       IN  /\ net' = Answer(m, [m EXCEPT !.stage = IF there THEN "ok" ELSE "fail"])
           /\ IF m.kind = "deleteNote"
              THEN /\ srvNotes' = {r \in srvNotes : r.id # m.id}
                   /\ UNCHANGED srvHighlights
              ELSE /\ srvHighlights' = {r \in srvHighlights : r.id # m.id}
                   /\ UNCHANGED srvNotes
    /\ UNCHANGED <<viewerVars, flipVars>>
    /\ UNCHANGED <<getNotes, getHighlights, preload, nextId, created, deleted>>

\* the API refuses a request: {success: false, error}
Refuse(m) ==
    /\ m \in InFlight /\ m.stage = "sent"
    /\ net' = Answer(m, [m EXCEPT !.stage = "fail"])
    /\ UNCHANGED <<viewerVars, flipVars>>
    /\ UNCHANGED <<getNotes, getHighlights, preload, srvNotes, srvHighlights, nextId,
                   created, deleted>>

\* the transport fails: the request never arrives, or its answer is lost or is not JSON
Drop(m) ==
    /\ m \in InFlight /\ m.stage \in {"sent", "ok"}
    /\ net' = Answer(m, [m EXCEPT !.stage = "reject"])
    /\ UNCHANGED <<viewerVars, flipVars>>
    /\ UNCHANGED <<getNotes, getHighlights, preload, srvNotes, srvHighlights, nextId,
                   created, deleted>>

(* ------------------------ the load-time fetch ------------------------- *)
\* lines 383-387: the initial load, 300 ms after the document is ready
InitialLoad ==
    /\ preload = "idle"
    /\ dom' = load(view, allNotes, allHighlights, dom)
    /\ preload' = "pending"
    /\ getNotes' = Sent
    /\ getHighlights' = Sent
    /\ UNCHANGED <<currentMode, currentHighlightColor, allNotes, allHighlights,
                   previewCount, highlightStart, highlightPreview, isDown, startX,
                   view, layer>>
    /\ UNCHANGED <<net, srvNotes, srvHighlights, nextId, created, deleted>>
    /\ UNCHANGED flipVars

\* GET /api/book/{id}/notes: the array of the notes the store holds
ServeGetNotes ==
    /\ getNotes.st = "sent"
    /\ getNotes' = [st |-> "ok", array |-> TRUE, body |-> ById(srvNotes)]
    /\ UNCHANGED <<viewerVars, flipVars>>
    /\ UNCHANGED <<net, getHighlights, preload, srvNotes, srvHighlights, nextId,
                   created, deleted>>

\* GET /api/book/{id}/highlights
ServeGetHighlights ==
    /\ getHighlights.st = "sent"
    /\ getHighlights' = [st |-> "ok", array |-> TRUE, body |-> ById(srvHighlights)]
    /\ UNCHANGED <<viewerVars, flipVars>>
    /\ UNCHANGED <<net, getNotes, preload, srvNotes, srvHighlights, nextId,
                   created, deleted>>

\* one of the two fetches rejects (no connection, or a body that is not JSON)
FailGet(which) ==
    /\ IF which = "notes"
       THEN getNotes.st = "sent" /\ getNotes' = Failed /\ UNCHANGED getHighlights
       ELSE getHighlights.st = "sent" /\ getHighlights' = Failed /\ UNCHANGED getNotes
    /\ UNCHANGED <<viewerVars, flipVars>>
    /\ UNCHANGED <<net, preload, srvNotes, srvHighlights, nextId, created, deleted>>

\* the API answers a load-time fetch with JSON that is not an array (an error object):
\* r.json() resolves
AnswerNotArray(which) ==
    /\ IF which = "notes"
       THEN getNotes.st = "sent" /\ getNotes' = NotArray /\ UNCHANGED getHighlights
       ELSE getHighlights.st = "sent" /\ getHighlights' = NotArray /\ UNCHANGED getNotes
    /\ UNCHANGED <<viewerVars, flipVars>>
    /\ UNCHANGED <<net, preload, srvNotes, srvHighlights, nextId, created, deleted>>

\* lines 32-33: Array.isArray(notes) ? notes : []
ArrayOrEmpty(g) == IF g.array THEN g.body ELSE <<>>

\* lines 31-36: both fetches resolved
PreloadThen ==
    /\ preload = "pending"
    /\ getNotes.st = "ok" /\ getHighlights.st = "ok"
    /\ allNotes' = ArrayOrEmpty(getNotes)
    /\ allHighlights' = ArrayOrEmpty(getHighlights)
    /\ dom' = load(view, ArrayOrEmpty(getNotes), ArrayOrEmpty(getHighlights), dom)
    /\ preload' = "done"
    /\ UNCHANGED <<currentMode, currentHighlightColor, previewCount, highlightStart,
                   highlightPreview, isDown, startX, view, layer>>
    /\ UNCHANGED <<net, getNotes, getHighlights, srvNotes, srvHighlights, nextId,
                   created, deleted>>
    /\ UNCHANGED flipVars

\* lines 37-41: Promise.all rejects as soon as one fetch has
PreloadCatch ==
    /\ preload = "pending"
    /\ getNotes.st = "fail" \/ getHighlights.st = "fail"
    /\ allNotes' = <<>>
    /\ allHighlights' = <<>>
    /\ preload' = "failed"
    /\ UNCHANGED <<currentMode, currentHighlightColor, dom, previewCount, highlightStart,
                   highlightPreview, isDown, startX, view, layer>>
    /\ UNCHANGED <<net, getNotes, getHighlights, srvNotes, srvHighlights, nextId,
                   created, deleted>>
    /\ UNCHANGED flipVars

(* ----------------------------- Flipbook ------------------------------- *)
\* a variant of renderPages stepping by one page (i++ for i += 2 at line 496)
WrapperPerPage == 1 .. totalPages

\* lines 495-519: renderPages makes one wrapper per two pages, data-index 1, 2, ...
Wrappers == 1 .. ((totalPages + 1) \div 2)

\* a variant of nextPage without the isAnimating test of line 540
nextPageAnytime ==
    IF currentSpread \notin Wrappers
    THEN UNCHANGED <<currentSpread, isAnimating, flipped>>
    ELSE /\ isAnimating' = TRUE
         /\ flipped' = flipped \cup {currentSpread}
         /\ currentSpread' = currentSpread + 1

\* lines 539-550
nextPage ==
    IF isAnimating \/ currentSpread \notin Wrappers
    THEN UNCHANGED <<currentSpread, isAnimating, flipped>>
    ELSE /\ isAnimating' = TRUE
         /\ flipped' = flipped \cup {currentSpread}
         /\ currentSpread' = currentSpread + 1

\* lines 551-563
prevPage ==
    IF isAnimating \/ currentSpread <= 1
    THEN UNCHANGED <<currentSpread, isAnimating, flipped>>
    ELSE /\ currentSpread' = currentSpread - 1
         /\ IF (currentSpread - 1) \notin Wrappers
            THEN UNCHANGED <<isAnimating, flipped>>
            ELSE /\ isAnimating' = TRUE
                 /\ flipped' = flipped \ {currentSpread - 1}

\* lines 521-527: the buttons and the arrow keys
FlipCommand(dir) ==
    /\ IF dir = "next" THEN nextPage ELSE prevPage
    /\ UNCHANGED <<fbStartX, totalPages>>
    /\ UNCHANGED <<viewerVars, remoteVars>>

\* lines 530-532
FlipTouchStart(x) ==
    /\ fbStartX' = x
    /\ UNCHANGED <<currentSpread, isAnimating, flipped, totalPages>>
    /\ UNCHANGED <<viewerVars, remoteVars>>

\* lines 533-537
FlipTouchEnd(endX) ==
    /\ IF fbStartX - endX > SwipeThreshold THEN nextPage
       ELSE IF endX - fbStartX > SwipeThreshold THEN prevPage
       ELSE UNCHANGED <<currentSpread, isAnimating, flipped>>
    /\ UNCHANGED <<fbStartX, totalPages>>
    /\ UNCHANGED <<viewerVars, remoteVars>>

\* lines 549 and 562: the animation timer expires
FlipTimer ==
    /\ isAnimating
    /\ isAnimating' = FALSE
    /\ UNCHANGED <<currentSpread, flipped, fbStartX, totalPages>>
    /\ UNCHANGED <<viewerVars, remoteVars>>

(* --------------------------- specifications --------------------------- *)
\* pointer positions, in pixels from the corner of a layer
Pts == {<<10, 10>>, <<150, 150>>}
DragFrom == {<<10, 10>>, <<150, 150>>}
DragTo == {<<10, 10>>, <<12, 11>>, <<20, 20>>, <<21, 10>>, <<10, 21>>, <<150, 150>>}
TouchXs == {0, 50, 101}
Contents == {NULL, "hi"}
Colors == {"yellow", "green"}
Targets == {"layer", "marker", "delete"}

InitViewer ==
    /\ currentMode = NULL
    /\ currentHighlightColor = "yellow"
    /\ allNotes = <<>>
    /\ allHighlights = <<>>
    /\ dom = {}
    /\ previewCount = 0
    /\ highlightStart = NoStart
    /\ highlightPreview = NULL
    /\ isDown = FALSE
    /\ startX = 0
    /\ view = ViewOf(1)

InitRemote ==
    /\ net = EmptyBag
    /\ getNotes = Idle
    /\ getHighlights = Idle
    /\ preload = "idle"
    /\ srvNotes = {}
    /\ srvHighlights = {}
    /\ nextId = 1
    /\ created = {}
    /\ deleted = {}

\* lines 472-483
InitFlip ==
    /\ currentSpread = 1
    /\ isAnimating = FALSE
    /\ flipped = {}
    /\ fbStartX = 0

Init ==
    /\ InitViewer
    /\ layer = [w |-> 500, h |-> 700]
    /\ InitRemote
    /\ InitFlip
    /\ totalPages = 0

\* no request is on its way and no answer waits for its handler
Quiet == net = EmptyBag

\* the annotations after the load: the modes, placing and drawing, the cache, the
\* document, the API; here the reader presses and releases in turn and waits for the
\* answer to one request before making the next
Next ==
    \/ \E mode \in Modes : ToggleMode(mode)
    \/ \E dir \in {"next", "previous"} : Turn(dir)
    \/ \E p \in Pages : previewCount = 0 /\ DragDown("layer", p, <<10, 10>>)
    \/ \E r \in Pts : Quiet /\ PointerUp(At(DragPage, r))
    \/ \E p \in Pages, content \in Contents : Quiet /\ ClickLayer(p, <<10, 10>>, content)
    \/ \E m \in dom, confirmed \in BOOLEAN : Quiet /\ DeleteClick(m, confirmed)
    \/ \E m \in InFlight : CreateNoteDone(m)
    \/ \E m \in InFlight : CreateHighlightDone(m)
    \/ \E m \in InFlight : DeleteNoteDone(m)
    \/ \E m \in InFlight : DeleteHighlightDone(m)
    \/ \E m \in InFlight : ServeCreate(m)
    \/ \E m \in InFlight : ServeDelete(m)
    \/ \E m \in InFlight : Refuse(m)
    \/ \E m \in InFlight : Drop(m)

Spec == Init /\ [][Next]_vars

\* the load-time fetch, racing the placing and the deleting of notes
NextLoad ==
    \/ ToggleMode("note")
    \/ \E dir \in {"next", "previous"} : Turn(dir)
    \/ \E p \in Pages : Quiet /\ ClickLayer(p, <<10, 10>>, "hi")
    \/ \E m \in dom : Quiet /\ DeleteClick(m, TRUE)
    \/ \E m \in InFlight : CreateNoteDone(m)
    \/ \E m \in InFlight : DeleteNoteDone(m)
    \/ \E m \in InFlight : ServeCreate(m)
    \/ \E m \in InFlight : ServeDelete(m)
    \/ \E m \in InFlight : Drop(m)
    \/ InitialLoad
    \/ ServeGetNotes
    \/ ServeGetHighlights
    \/ \E which \in {"notes", "highlights"} : FailGet(which)
    \/ PreloadThen
    \/ PreloadCatch

SpecLoad == Init /\ [][NextLoad]_vars

\* the gestures: the modes, the swipe, the drag; every request is refused
NextNav ==
    \/ \E mode \in Modes : ToggleMode(mode)
    \/ \E dir \in {"next", "previous"} : Turn(dir)
    \/ \E p \in Pages, r \in Pts : NavDown("layer", p, r)
    \/ \E p \in Pages : DragDown("layer", p, <<10, 10>>)
    \/ \E p \in Pages, r \in Pts : Visible(p) /\ PointerUp(At(p, r))
    \/ \E m \in InFlight : Refuse(m)
    \/ \E m \in InFlight : CreateHighlightDone(m)

SpecNav == Init /\ [][NextNav]_vars

\* the highlighter's drag alone, over either layer size
InitDrag ==
    /\ InitViewer
    /\ layer \in LayerSizes
    /\ InitRemote
    /\ InitFlip
    /\ totalPages = 0

NextDrag ==
    \/ ToggleMode("highlight")
    \/ \E p \in Pages, r \in DragFrom : DragDown("layer", p, r)
    \/ \E p \in Pages, r \in DragTo : Visible(p) /\ PointerUp(At(p, r))
    \/ \E m \in InFlight : Drop(m)
    \/ \E m \in InFlight : CreateHighlightDone(m)

SpecDrag == InitDrag /\ [][NextDrag]_vars

\* the Flipbook instance of window.onload (line 570), beside the mode buttons
InitFlipbook ==
    /\ InitViewer
    /\ layer = [w |-> 500, h |-> 700]
    /\ InitRemote
    /\ InitFlip
    /\ totalPages \in 0 .. MaxTotalPages

NextFlip ==
    \/ \E mode \in Modes : ToggleMode(mode)
    \/ \E dir \in {"next", "previous"} : FlipCommand(dir)
    \/ \E x \in TouchXs : FlipTouchStart(x)
    \/ \E x \in TouchXs : FlipTouchEnd(x)
    \/ FlipTimer

SpecFlip == InitFlipbook /\ [][NextFlip]_vars

\* lines 549 and 562: a timer set by setTimeout expires after its delay, and the
\* handlers of the page all return, so a pending expiry is eventually run
SpecFlipFair == SpecFlip /\ WF_vars(FlipTimer)

\* records the store may hold from earlier sessions
StoredNote ==
    [id |-> 1, page_number |-> 0, content |-> "hi", x |-> Pct(1, 10), y |-> Pct(1, 10)]
\* a stored highlight's colour: of the palette, unset, or a value outside the palette
StoredColors == {"green", NULL, "purple"}
StoredHighlight(color) ==
    [id |-> 2, page_number |-> 0,
     coordinates |-> [x |-> Pct(1, 10), y |-> Pct(1, 10), w |-> Pct(1, 5), h |-> Pct(1, 5)],
     color |-> color]

\* the load-time fetch alone, against a store that may hold records, with every outcome
\* of either fetch
InitFetch ==
    /\ InitViewer
    /\ layer = [w |-> 500, h |-> 700]
    /\ net = EmptyBag
    /\ getNotes = Idle
    /\ getHighlights = Idle
    /\ preload = "idle"
    /\ srvNotes \in SUBSET {StoredNote}
    /\ srvHighlights \in {{}} \cup {{StoredHighlight(c)} : c \in StoredColors}
    /\ nextId = MaxId + 1
    /\ created = {}
    /\ deleted = {}
    /\ InitFlip
    /\ totalPages = 0

NextFetch ==
    \/ \E mode \in Modes : ToggleMode(mode)
    \/ InitialLoad
    \/ ServeGetNotes
    \/ ServeGetHighlights
    \/ \E which \in {"notes", "highlights"} : FailGet(which)
    \/ \E which \in {"notes", "highlights"} : AnswerNotArray(which)
    \/ PreloadThen
    \/ PreloadCatch

SpecFetch == InitFetch /\ [][NextFetch]_vars

\* placing and drawing without waiting for the answers: up to MaxInFlight requests are
\* on their way at a time, answered and handled in any order, on the pages of
\* the first view
NextTwo ==
    \/ \E mode \in Modes : ToggleMode(mode)
    \/ \E p \in Pages : ClickLayer(p, <<10, 10>>, "hi")
    \/ \E p \in Pages : previewCount = 0 /\ DragDown("layer", p, <<10, 10>>)
    \/ PointerUp(At(DragPage, <<150, 150>>))
    \/ \E m \in InFlight : ServeCreate(m)
    \/ \E m \in InFlight : CreateNoteDone(m)
    \/ \E m \in InFlight : CreateHighlightDone(m)

SpecTwo == Init /\ [][NextTwo]_vars

\* the annotations of the first view while the reader turns no page: placing, drawing
\* and deleting, one request at a time, with every outcome of a request
NextStill ==
    \/ \E mode \in Modes : ToggleMode(mode)
    \/ \E p \in Pages : previewCount = 0 /\ DragDown("layer", p, <<10, 10>>)
    \/ \E r \in Pts : Quiet /\ PointerUp(At(DragPage, r))
    \/ \E p \in Pages, content \in Contents : Quiet /\ ClickLayer(p, <<10, 10>>, content)
    \/ \E m \in dom, confirmed \in BOOLEAN : Quiet /\ DeleteClick(m, confirmed)
    \/ \E m \in InFlight : CreateNoteDone(m)
    \/ \E m \in InFlight : CreateHighlightDone(m)
    \/ \E m \in InFlight : DeleteNoteDone(m)
    \/ \E m \in InFlight : DeleteHighlightDone(m)
    \/ \E m \in InFlight : ServeCreate(m)
    \/ \E m \in InFlight : ServeDelete(m)
    \/ \E m \in InFlight : Refuse(m)
    \/ \E m \in InFlight : Drop(m)

SpecStill == Init /\ [][NextStill]_vars

\* drawing highlights while the colour picker is used
NextColour ==
    \/ ToggleMode("highlight")
    \/ \E color \in Colors : SetHighlightColor(color)
    \/ \E p \in Pages : previewCount = 0 /\ DragDown("layer", p, <<10, 10>>)
    \/ \E r \in Pts : PointerUp(At(DragPage, r))
    \/ \E m \in InFlight : ServeCreate(m)
    \/ \E m \in InFlight : Refuse(m)
    \/ \E m \in InFlight : CreateHighlightDone(m)

SpecColour == Init /\ [][NextColour]_vars

(* ------------------------------- claims ------------------------------- *)
BrowseOrMode == {NULL} \cup Modes

\* C1: currentMode is always one of browse, placing-note and drawing-highlight;
\* toggling the current mode returns to browse, toggling another mode makes that mode
\* the current one (so note then highlight leaves only highlight current).
C1_ToggleExclusive ==
    /\ [](currentMode \in BrowseOrMode)
    /\ [](\A mode \in Modes :
            toggleMode(mode) = (IF currentMode = mode THEN NULL ELSE mode))
    /\ [][\A mode \in Modes :
            ToggleMode(mode) =>
                currentMode' = (IF currentMode = mode THEN NULL ELSE mode)]_vars

\* the reader is in highlight mode, which only a toggle enters
C1_Witness == currentMode = "highlight"

Unanswered(m) == m.stage \in {"fail", "reject"}

\* C2: when the handler of a create request runs on an unsuccessful answer or on a
\* transport or parse failure, both caches and the rendered markers stay as they were.
C2_FailedCreateChangesNothing ==
    [][\A m \in InFlight :
        (/\ m.kind \in CreateKinds
         /\ Unanswered(m)
         /\ CreateNoteDone(m) \/ CreateHighlightDone(m))
        => UNCHANGED <<allNotes, allHighlights, dom>>]_vars

\* a create has failed and waits for its handler while the cache holds a record
C2_Witness ==
    \E m \in InFlight :
        /\ m.kind \in CreateKinds
        /\ Unanswered(m)
        /\ Len(allNotes) + Len(allHighlights) > 0
        /\ dom # {}

IdsOf(s) == {s[i].id : i \in 1 .. Len(s)}

\* C3: when the handler of a delete request runs on an unsuccessful answer or on a
\* transport or parse failure, the cache still holds the entry and its marker is still
\* in the document.
C3_FailedDeleteKeepsEntry ==
    [][\A m \in InFlight :
        (/\ m.kind \in DeleteKinds
         /\ Unanswered(m)
         /\ DeleteNoteDone(m) \/ DeleteHighlightDone(m))
        => /\ UNCHANGED <<allNotes, allHighlights, dom>>
           /\ m.id \in IdsOf(allNotes) => m.id \in IdsOf(allNotes')
           /\ m.id \in IdsOf(allHighlights) => m.id \in IdsOf(allHighlights')
           /\ \A q \in dom : q.el = m.el => q \in dom']_vars

\* a delete of a cached, rendered record has failed and waits for its handler
C3_Witness ==
    \E m \in InFlight :
        /\ m.kind \in DeleteKinds
        /\ Unanswered(m)
        /\ \E q \in dom : q.el = m.el /\ q.id = m.id
        /\ m.id \in IdsOf(IF m.kind = "deleteNote" THEN allNotes ELSE allHighlights)

IdsIn(S, kind) == {r.id : r \in {q \in S : q.kind = kind}}

\* the load has not begun or has been applied, and nothing is in flight
Quiescent ==
    /\ net = EmptyBag
    /\ preload \in {"idle", "done"}
    /\ getNotes.st # "sent" /\ getHighlights.st # "sent"

\* C4: whenever no request is in flight, each cache holds exactly the records the
\* load-time fetch returned plus those whose create succeeded in the session, minus
\* those whose delete succeeded.
C4_CacheIsLoadedPlusCreatedMinusDeleted ==
    Quiescent =>
        /\ IdsOf(allNotes) =
                (IdsOf(getNotes.body) \cup IdsIn(created, "note")) \ IdsIn(deleted, "note")
        /\ IdsOf(allHighlights) =
                (IdsOf(getHighlights.body) \cup IdsIn(created, "highlight"))
                    \ IdsIn(deleted, "highlight")

\* C5: a swipe handler issues a page turn only in browse mode: the viewer's handler
\* when the pointer is released, whatever the mode was when it went down, and the
\* touch handler of Flipbook.
C5_SwipeTurnsOnlyInBrowse ==
    [][/\ (isDown /\ ~isDown' /\ view' # view) => currentMode = NULL
       /\ \A x \in TouchXs :
            (FlipTouchEnd(x) /\ currentSpread' # currentSpread) => currentMode = NULL]_vars

NoteRequests == {m \in InFlight : m.kind = "createNote" /\ m.stage = "sent"}

\* C6: a click on a layer in note mode leaves the mode browse, whether the prompt was
\* cancelled or a note was submitted; a note request is made only by a step from note
\* mode to browse.
C6_ClickEndsNoteMode ==
    [][/\ \A p \in Pages, r \in Pts, content \in Contents :
            ClickLayer(p, r, content) => currentMode = "note" /\ currentMode' = NULL
       /\ (NoteRequests' # NoteRequests /\ NoteRequests' # {})
            => currentMode = "note" /\ currentMode' = NULL]_vars

\* a note was submitted and the mode is browse again
C6_Witness == currentMode = NULL /\ NoteRequests # {}

\* C7: ending a drag and handling the answer to a highlight request leave the mode
\* as it was, and the mode leaves highlight only when a mode button is toggled.
C7_HighlightModeStays ==
    [][/\ (DragOpen /\ ~DragOpen') => currentMode' = currentMode
       /\ \A m \in InFlight : CreateHighlightDone(m) => currentMode' = currentMode
       /\ (currentMode = "highlight" /\ currentMode' # "highlight")
            => \E mode \in Modes : ToggleMode(mode)]_vars

\* a highlight was drawn and its answer handled, and the mode is still highlight
C7_Witness == currentMode = "highlight" /\ allHighlights # <<>> /\ ~DragOpen /\ Quiet

\* C8: at most one drag is open and at most one preview element exists; none exists
\* when no drag is open.
C8_OnePreview == previewCount <= 1 /\ (~DragOpen => previewCount = 0)

Shown(v) == {p \in Pages : (p + 1) = v[1] \/ (p + 1) = v[2]}
MarkersOn(p, kind, d) == {m \in d : m.page = p /\ m.kind = kind}

\* page p shows one marker for each entry of s with that page number, and no other
OnePerEntry(s, p, kind, d) ==
    LET on == OnPage(s, p)
    IN  /\ Cardinality(MarkersOn(p, kind, d)) = Len(on)
        /\ \A i \in 1 .. Len(on) :
              Cardinality({m \in MarkersOn(p, kind, d) : m.id = on[i].id}) =
              Cardinality({j \in 1 .. Len(on) : on[j].id = on[i].id})

\* C9: rendering the annotations of a page from the cache, once or again, gives
\* exactly one marker for each cached note and each cached highlight of that page and
\* no marker for any other annotation.
C9_RenderExact ==
    \A v \in Views :
        LET once == load(v, allNotes, allHighlights, dom)
            twice == load(v, allNotes, allHighlights, once)
        IN  /\ twice = once
            /\ \A p \in Shown(v) :
                  /\ OnePerEntry(allNotes, p, "note", once)
                  /\ OnePerEntry(allHighlights, p, "highlight", once)
                  /\ \A m \in once : m.page = p => m.kind \in {"note", "highlight"}

\* the visible page shows a cached note, another cached annotation belongs elsewhere
C9_Witness ==
    \E p \in Pages :
        /\ Visible(p)
        /\ OnPage(allNotes, p) # <<>>
        /\ MarkersOn(p, "note", dom) # {}
        /\ \E q \in Pages \ {p} : OnPage(allNotes, q) \o OnPage(allHighlights, q) # <<>>

\* the release at r over the layer of page p ends the open drag
EndsDrag(p, r) == DragOpen /\ Visible(p) /\ PointerUp(At(p, r))
DragDx(r) == Abs(r[1] - highlightStart[1].x)
DragDy(r) == Abs(r[2] - highlightStart[1].y)

FracLeq(a, b) == a.n * b.d <= b.n * a.d
Corners == DragFrom \cup DragTo

\* C11: the rectangle a drag sends has non-negative w and h and (x, y) at the
\* component-wise minimum of its two corners, and a drag from P to Q gives the same
\* rectangle as a drag from Q to P.
C11_RectNormalized ==
    /\ [](\A P \in Corners, Q \in Corners :
            Rect(P[1], P[2], Q[1], Q[2]) = Rect(Q[1], Q[2], P[1], P[2]))
    /\ [][\A p \in Pages, r \in DragTo :
            (EndsDrag(p, r) /\ net' # net) =>
                \E m \in InFlight' :
                    LET hs == highlightStart[1]
                        px == Pct(hs.x, layer.w)
                        py == Pct(hs.y, layer.h)
                        qx == Pct(r[1], layer.w)
                        qy == Pct(r[2], layer.h)
                    IN  /\ net' = Put(m)
                        /\ m.w.n >= 0 /\ m.h.n >= 0
                        /\ m.x \in {px, qx} /\ FracLeq(m.x, px) /\ FracLeq(m.x, qx)
                        /\ m.y \in {py, qy} /\ FracLeq(m.y, py) /\ FracLeq(m.y, qy)]_vars

\* the request of a drag made up and to the left, from (150,150) to (21,10)
C11_Witness ==
    \E m \in InFlight :
        /\ m.kind = "createHighlight"
        /\ m.x = Pct(21, layer.w) /\ m.y = Pct(10, layer.h)
        /\ m.w = Pct(129, layer.w) /\ m.h = Pct(140, layer.h)

\* a load-time fetch failed: its promise rejected, or the API answered an error object
LoadFailed(g) == g.st = "fail" \/ (g.st = "ok" /\ ~g.array)

\* C12: when either load-time fetch fails, both caches are empty once the failure has
\* been handled, whatever the other fetch returned.
C12_FailedLoadEmptiesBoth ==
    [][(/\ preload = "pending" /\ preload' # "pending"
        /\ LoadFailed(getNotes) \/ LoadFailed(getHighlights))
       => allNotes' = <<>> /\ allHighlights' = <<>>]_vars

\* the cache s holds record r and page r.page_number shows exactly one marker of it
CachedAndShown(r, s, kind) ==
    /\ r.id \in IdsOf(s)
    /\ Cardinality({m \in MarkersOn(r.page_number, kind, dom) : m.id = r.id}) = 1

\* C13: when creates are in flight together and succeed, then once their answers have
\* been handled, in either order, the cache holds every record and its page shows a
\* marker for each; so for a note and then a highlight of one page.
C13_BothCreatesAppear ==
    Quiet =>
        /\ \A r \in srvNotes : CachedAndShown(r, allNotes, "note")
        /\ \A r \in srvHighlights : CachedAndShown(r, allHighlights, "highlight")

\* a note create and then a highlight create of one page have both succeeded and both
\* answers wait for their handlers
C13_Witness ==
    \E a \in InFlight, b \in InFlight :
        /\ a.kind = "createNote" /\ b.kind = "createHighlight"
        /\ a.stage = "ok" /\ b.stage = "ok"
        /\ a.page = b.page /\ a.id < b.id

StoredIds(S) == {r.id : r \in S}

\* C14: once the outcome of every create and delete has been handled, the remote store
\* and the cache hold the same records: a change is in both or in neither.
C14_StoreAndCacheAgree ==
    Quiet =>
        /\ IdsOf(allNotes) = StoredIds(srvNotes)
        /\ IdsOf(allHighlights) = StoredIds(srvHighlights)

DeleteRequests == {m \in InFlight : m.kind \in DeleteKinds /\ m.stage = "sent"}

\* C15: a DELETE request is made only by a click on a delete control that the reader
\* confirmed; a declined click makes no request and leaves the caches and the markers
\* as they were.
C15_DeleteNeedsConfirm ==
    [][/\ \A m \in dom :
            DeleteClick(m, FALSE) =>
                net' = net /\ UNCHANGED <<allNotes, allHighlights, dom>>
       /\ ~(DeleteRequests' \subseteq DeleteRequests) =>
            \E m \in dom : Confirms(TRUE) /\ DeleteClick(m, TRUE)]_vars

\* a confirmed delete of a rendered, cached record is on its way
C15_Witness ==
    \E m \in DeleteRequests :
        /\ \E q \in dom : q.el = m.el /\ q.id = m.id
        /\ m.id \in IdsOf(allNotes) \cup IdsOf(allHighlights)

\* the step sends a request of this kind
Sends(kind) ==
    \E m \in InFlight' : m.kind = kind /\ m.stage = "sent" /\ net' = Put(m)

\* C16: a create-note request is sent only while the mode is note, and a
\* create-highlight request only while the mode is highlight, whatever the mode was
\* when the drag began.
C16_CreatesOnlyInTheirMode ==
    [][/\ Sends("createNote") => currentMode = "note"
       /\ Sends("createHighlight") => currentMode = "highlight"]_vars

DistinctIds(s) == \A i \in 1 .. Len(s), j \in 1 .. Len(s) : s[i].id = s[j].id => i = j

\* C17: no two entries of allNotes and no two entries of allHighlights have the same id.
C17_NoDuplicateIds == DistinctIds(allNotes) /\ DistinctIds(allHighlights)

MarkerKind(m) == IF m.kind = "deleteNote" THEN "note" ELSE "highlight"

\* C18: once a successful delete answer has been handled, the record is not in the
\* cache and no page shows a marker of it.
C18_DeletedIsGone ==
    [][\A m \in InFlight :
        (/\ m.kind \in DeleteKinds
         /\ m.stage = "ok"
         /\ DeleteNoteDone(m) \/ DeleteHighlightDone(m))
        => /\ m.id \notin IdsOf(IF m.kind = "deleteNote" THEN allNotes' ELSE allHighlights')
           /\ ~ \E q \in dom' : q.kind = MarkerKind(m) /\ q.id = m.id]_vars

\* C19: a highlight is rendered under its own colour when that is one of the palette,
\* and under yellow when its colour is unset or is not of the palette.
C19_RenderedColour ==
    \A m \in dom, i \in 1 .. Len(allHighlights) :
        (m.kind = "highlight" /\ m.id = allHighlights[i].id) =>
            m.colorClass = (IF allHighlights[i].color \in Palette
                            THEN allHighlights[i].color ELSE "yellow")

\* C20: the colour stored in the cached record of a created highlight is the colour
\* its create request carried.
C20_CachedColourIsSentColour ==
    [][\A m \in InFlight :
        (m.kind = "createHighlight" /\ m.stage = "ok" /\ CreateHighlightDone(m))
        => /\ Len(allHighlights') = Len(allHighlights) + 1
           /\ allHighlights'[Len(allHighlights')].id = m.id
           /\ allHighlights'[Len(allHighlights')].color = m.color]_vars

\* the least c with 2 * c >= n
CeilHalf(n) == CHOOSE c \in 0 .. n : 2 * c >= n /\ 2 * (c - 1) < n

\* C21: in Flipbook, 1 <= currentSpread <= ceil(totalPages / 2) + 1, and the wrapper
\* with index k is flipped if and only if k < currentSpread.
C21_SpreadInRange ==
    /\ 1 <= currentSpread
    /\ currentSpread <= CeilHalf(totalPages) + 1
    /\ \A k \in 1 .. CeilHalf(totalPages) : k \in flipped <=> k < currentSpread
    /\ flipped \subseteq 1 .. CeilHalf(totalPages)

\* every wrapper of a book of an odd number of pages is flipped, the animation over
C21_Witness ==
    /\ totalPages = 3
    /\ currentSpread = CeilHalf(totalPages) + 1
    /\ flipped = {1, 2}
    /\ ~isAnimating

\* C22: in Flipbook, while isAnimating is true a nextPage or prevPage call leaves
\* currentSpread and every wrapper's flipped state unchanged; a call that finds no
\* wrapper or is at the first spread does not set isAnimating (so a step that sets it
\* found a wrapper and flipped it); and every flip that sets isAnimating is followed
\* by a timer expiry that clears it.
C22_AnimationFrame ==
    /\ [][(isAnimating /\ (nextPage \/ prevPage))
            => UNCHANGED <<currentSpread, flipped>>]_vars
    /\ [][(nextPage /\ currentSpread \notin 1 .. CeilHalf(totalPages))
            => isAnimating' = isAnimating]_vars
    /\ [][(prevPage /\ (currentSpread <= 1
                        \/ (currentSpread - 1) \notin 1 .. CeilHalf(totalPages)))
            => isAnimating' = isAnimating]_vars
    /\ [][(~isAnimating /\ isAnimating')
            => \/ /\ currentSpread \in 1 .. CeilHalf(totalPages)
                  /\ currentSpread' = currentSpread + 1
                  /\ flipped' = flipped \cup {currentSpread}
               \/ /\ currentSpread > 1
                  /\ (currentSpread - 1) \in 1 .. CeilHalf(totalPages)
                  /\ currentSpread' = currentSpread - 1
                  /\ flipped' = flipped \ {currentSpread - 1}]_vars
    /\ isAnimating ~> ~isAnimating

\* the last wrapper of a two-page book is turning: a nextPage call now would find
\* the animation running, and after it no wrapper
C22_Witness ==
    /\ totalPages = 2
    /\ isAnimating
    /\ currentSpread = 2
    /\ flipped = {1}

====
